---- MODULE Spec2Model ----
(***************************************************************************)
(* Model of the order service in app.py: a FastAPI application with one    *)
(* process-wide Motor client (mongo_client), the startup/shutdown hooks    *)
(* and the four routes /healthz, /ready, /orders and /orders/count.        *)
(*                                                                         *)
(* The MongoDB server is the environment: it is reachable or not (dbUp),   *)
(* and a driver command succeeds when it is reachable and raises           *)
(* otherwise.  Two specifications share the definitions of the handlers:   *)
(*   Spec      every request is handled in one step (sequential clients);  *)
(*   SpecConc  every request is a task that suspends at its single await,  *)
(*             so that requests interleave at their await points.          *)
(***************************************************************************)
EXTENDS Integers, Sequences, FiniteSets, TLC

\* ---------- bounds of the model ----------
MaxDocs == 2        \* documents the collection may hold
MaxInFlight == 2    \* request tasks of SpecConc

\* ---------- values ----------
None == "None"
MONGO_DB == "app"
MONGO_COLLECTION == "orders"

\* values os.getenv("MONGO_URI") may yield: unset, empty, a URI
MongoUris == {None, "", "mongodb://db:27017"}

\* Python truth value of an optional string / optional client
Truthy(x) == x \notin {None, ""}

\* instants datetime.utcnow() may return (the wall clock is not monotonic)
Clock == {0, 1}
OrderIds == {"", "A"}

\* messages of the exception a driver command raises (str(e) may be empty)
Errors == {"", "timed out"}

\* JSON bodies of POST /orders, by their orderId member
NoBody == [present |-> FALSE, type |-> "none", val |-> ""]
Bodies ==
  {NoBody, [present |-> TRUE, type |-> "null", val |-> ""]}
  \cup {[present |-> TRUE, type |-> "str", val |-> s] : s \in OrderIds}

Endpoints == {"/healthz", "/ready", "/orders", "/orders/count"}

VARIABLES
  MONGO_URI,     \* configuration read from the environment at import
  phase,         \* "init" | "serving" | "stopped" (ASGI lifespan)
  mongo_client,  \* None | "open" | "closed"
  startupPing,   \* "none" | "ok" | "failed": outcome of the startup ping
  dbUp,          \* the database server is reachable
  coll,          \* documents of the collection, in insertion order
  nextId,        \* next ObjectId the driver generates
  resp, prev, prev2,   \* the last three answered requests (Spec)
  okPosts,       \* number of POST /orders answered 200 (Spec)
  tasks          \* request tasks (SpecConc)

vars == <<MONGO_URI, phase, mongo_client, startupPing, dbUp, coll, nextId,
          resp, prev, prev2, okPosts, tasks>>

\* ---------- the driver ----------
NoRes == [ok |-> FALSE, val |-> 0, err |-> ""]
Returned(v) == [ok |-> TRUE, val |-> v, err |-> ""]
Raised(e) == [ok |-> FALSE, val |-> 0, err |-> e]

\* a command against the server: its value when reachable, else it raises
command(up, e, v) == IF up THEN Returned(v) ELSE Raised(e)

\* insert_one that skips a document whose orderId is already stored
insert_one_dedup(c, doc, oid) ==
  IF \E k \in 1..Len(c) : c[k].orderId = doc.orderId THEN c
  ELSE Append(c, [_id |-> oid, orderId |-> doc.orderId, ts |-> doc.ts])

\* insert_one whose generated _id does not advance from one call to the next
insert_one_staleid(c, doc, oid) ==
  Append(c, [_id |-> 1, orderId |-> doc.orderId, ts |-> doc.ts])

\* Collection.insert_one: the document gets the generated _id and is appended
insert_one(c, doc, oid) ==
  Append(c, [_id |-> oid, orderId |-> doc.orderId, ts |-> doc.ts])

\* count_documents that counts distinct orderId values
count_distinct(c) == Cardinality({c[k].orderId : k \in 1..Len(c)})

\* Collection.count_documents({}): every document matches the empty filter
count_documents(c) == Len(c)

\* str(ObjectId): 24 hexadecimal digits (here the low digits of the counter)
ObjectIdStr(oid) ==
  [i \in 1..24 |-> IF i = 24 THEN oid % 16
                   ELSE IF i = 23 THEN (oid \div 16) % 16 ELSE 0]

\* datetime.utcnow().isoformat() + "Z"
IsoZ(t) == <<t, "Z">>

\* ---------- responses ----------
\* calls: the driver commands the handler issued while producing the answer
HTTPException(status, detail, calls) ==
  [status |-> status, body |-> [detail |-> detail], calls |-> calls]
Ok(body, calls) == [status |-> 200, body |-> body, calls |-> calls]
\* an exception that leaves the handler: the framework answers 500
ServerError(calls) ==
  [status |-> 500, body |-> [text |-> "Internal Server Error"], calls |-> calls]
\* the schema layer rejects the body before the handler runs
RequestValidationError ==
  [status |-> 422, body |-> [detail |-> "orderId: invalid or missing"],
   calls |-> <<>>]

\* orderId declared optional with a default: a missing member is accepted
OrderIn_optional(body) == body.type \in {"str", "none"}

\* class OrderIn(BaseModel): orderId: str
OrderIn(body) == body.present /\ body.type = "str"

\* healthz whose detail is str(e) alone
healthz_bare_detail(client, res) ==
  IF ~Truthy(client)
  THEN HTTPException(503, "no mongo client configured", <<>>)
  ELSE IF res.ok
       THEN Ok([status |-> "ok"], <<"ping">>)
       ELSE HTTPException(503, res.err, <<"ping">>)

\* healthz that answers from the presence of the client, without a ping
healthz_noping(client, res) ==
  IF ~Truthy(client)
  THEN HTTPException(503, "no mongo client configured", <<>>)
  ELSE Ok([status |-> "ok"], <<>>)

\* get_collection without the check of mongo_client
get_collection_nocheck(client) == [raised |-> FALSE, exc |-> NoRes]

\* ---------- handlers ----------
\* res is the outcome of the driver command the handler awaits, if it
\* reaches the await.
healthz(client, res) ==
  IF ~Truthy(client)
  THEN HTTPException(503, "no mongo client configured", <<>>)
  ELSE IF res.ok
       THEN Ok([status |-> "ok"], <<"ping">>)
       ELSE HTTPException(503, "mongo ping failed: " \o res.err, <<"ping">>)

ready(client, res) == healthz(client, res)

get_collection(client) ==
  IF ~Truthy(client)
  THEN [raised |-> TRUE,
        exc |-> HTTPException(503, "mongo not configured", <<>>)]
  ELSE [raised |-> FALSE, exc |-> NoRes]

\* the document create_order builds before it awaits insert_one
OrderDoc(order, t) == [orderId |-> order.val, ts |-> IsoZ(t)]

create_order(client, order, res) ==
  LET g == get_collection(client) IN
  IF g.raised THEN g.exc
  ELSE IF res.ok
       THEN Ok([inserted |-> TRUE, id |-> ObjectIdStr(res.val)],
               <<"insert_one">>)
       ELSE ServerError(<<"insert_one">>)

orders_count(client, res) ==
  LET g == get_collection(client) IN
  IF g.raised THEN g.exc
  ELSE IF res.ok
       THEN Ok([count |-> res.val], <<"count_documents">>)
       ELSE ServerError(<<"count_documents">>)

\* the route: schema validation of the body, then the handler
Route(ep, client, body, res) ==
  CASE ep = "/healthz" -> healthz(client, res)
    [] ep = "/ready" -> ready(client, res)
    [] ep = "/orders" -> IF OrderIn(body) THEN create_order(client, body, res)
                         ELSE RequestValidationError
    [] ep = "/orders/count" -> orders_count(client, res)

\* the status log_requests writes for the request
log_requests(r) == r.status

\* ---------- state ----------
\* reached: a driver command was issued and the server was reachable then
NoResp == [ep |-> "none", body |-> NoBody, status |-> 0,
           out |-> [text |-> ""], calls |-> <<>>, logged |-> 0,
           reached |-> FALSE]
Answer(ep, body, r, up) ==
  [ep |-> ep, body |-> body, status |-> r.status, out |-> r.body,
   calls |-> r.calls, logged |-> log_requests(r),
   reached |-> (r.calls # <<>> /\ up)]

IdleTask == [pc |-> "idle", ep |-> "none", body |-> NoBody, client |-> None,
             doc |-> [orderId |-> "", ts |-> IsoZ(0)], res |-> NoRes,
             up |-> FALSE, resp |-> NoResp]

Init ==
  /\ MONGO_URI \in MongoUris
  /\ phase = "init"
  /\ mongo_client = None
  /\ startupPing = "none"
  /\ dbUp \in BOOLEAN
  /\ coll = <<>>
  /\ nextId = 1
  /\ resp = NoResp /\ prev = NoResp /\ prev2 = NoResp
  /\ okPosts = 0
  /\ tasks = [i \in 1..MaxInFlight |-> IdleTask]

InFlight(i) == tasks[i].pc \in {"await", "ready"}

\* ---------- lifecycle ----------
\* the client startup_event leaves in mongo_client
startup_client(uri, client) == IF Truthy(uri) THEN "open" ELSE client
\* the outcome startup_event logs for its ping
startup_ping(uri, res) ==
  IF Truthy(uri) THEN (IF res.ok THEN "ok" ELSE "failed") ELSE "none"
\* the phase after startup_event: the exception of the ping is caught
startup_phase(uri, res) == "serving"

startup_event ==
  /\ phase = "init"
  /\ \E e \in Errors :
       LET res == command(dbUp, e, 1) IN
       /\ mongo_client' = startup_client(MONGO_URI, mongo_client)
       /\ startupPing' = startup_ping(MONGO_URI, res)
       /\ phase' = startup_phase(MONGO_URI, res)
  /\ UNCHANGED <<MONGO_URI, dbUp, coll, nextId, resp, prev, prev2, okPosts,
                 tasks>>

\* shutdown_event that does not close the client
shutdown_noclose(client) == client

\* the client shutdown_event leaves in mongo_client
shutdown_client(client) == IF Truthy(client) THEN "closed" ELSE client

shutdown_event ==
  /\ phase = "serving"
  /\ \A i \in 1..MaxInFlight : ~InFlight(i)
  /\ mongo_client' = shutdown_client(mongo_client)
  /\ phase' = "stopped"
  /\ UNCHANGED <<MONGO_URI, startupPing, dbUp, coll, nextId, resp, prev,
                 prev2, okPosts, tasks>>

\* the environment: the server becomes unreachable or reachable again
DbFlip ==
  /\ phase = "serving"
  /\ dbUp' = ~dbUp
  /\ UNCHANGED <<MONGO_URI, phase, mongo_client, startupPing, coll, nextId,
                 resp, prev, prev2, okPosts, tasks>>

\* ---------- requests handled in one step (Spec) ----------
Respond(ep, body, r) ==
  /\ resp' = Answer(ep, body, r, dbUp)
  /\ prev' = resp
  /\ prev2' = prev
  /\ okPosts' = IF ep = "/orders" /\ r.status = 200 THEN okPosts + 1
                ELSE okPosts

\* the handler reaches its await: it issues a driver command
Awaits(ep, client, body) == Route(ep, client, body, NoRes).calls # <<>>

Healthz ==
  /\ phase = "serving"
  /\ \E e \in Errors :
       Respond("/healthz", NoBody,
               Route("/healthz", mongo_client, NoBody, command(dbUp, e, 1)))
  /\ UNCHANGED <<MONGO_URI, phase, mongo_client, startupPing, dbUp, coll,
                 nextId, tasks>>

Ready ==
  /\ phase = "serving"
  /\ \E e \in Errors :
       Respond("/ready", NoBody,
               Route("/ready", mongo_client, NoBody, command(dbUp, e, 1)))
  /\ UNCHANGED <<MONGO_URI, phase, mongo_client, startupPing, dbUp, coll,
                 nextId, tasks>>

CreateOrder ==
  /\ phase = "serving"
  /\ \E body \in Bodies, t \in Clock, e \in Errors :
       LET res == command(dbUp, e, nextId)
           inserts == Awaits("/orders", mongo_client, body) /\ res.ok
       IN
       /\ inserts => Len(coll) < MaxDocs
       /\ coll' = IF inserts
                  THEN insert_one(coll, OrderDoc(body, t), res.val)
                  ELSE coll
       /\ nextId' = IF inserts THEN nextId + 1 ELSE nextId
       /\ Respond("/orders", body, Route("/orders", mongo_client, body, res))
  /\ UNCHANGED <<MONGO_URI, phase, mongo_client, startupPing, dbUp, tasks>>

OrdersCount ==
  /\ phase = "serving"
  /\ \E e \in Errors :
       Respond("/orders/count", NoBody,
               Route("/orders/count", mongo_client, NoBody,
                     command(dbUp, e, count_documents(coll))))
  /\ UNCHANGED <<MONGO_URI, phase, mongo_client, startupPing, dbUp, coll,
                 nextId, tasks>>

Next ==
  \/ startup_event
  \/ shutdown_event
  \/ DbFlip
  \/ Healthz
  \/ Ready
  \/ CreateOrder
  \/ OrdersCount

Spec == Init /\ [][Next]_vars

\* ---------- requests as tasks that suspend at their await (SpecConc) -------
\* the value the awaited driver command returns when it succeeds
CommandValue(ep, c, oid) ==
  CASE ep = "/orders" -> oid
    [] ep = "/orders/count" -> count_documents(c)
    [] OTHER -> 1

\* the handler starts: schema validation, the check of mongo_client and the
\* construction of the document run up to the await
Begin(i) ==
  /\ phase = "serving"
  /\ tasks[i].pc = "idle"
  /\ \E ep \in Endpoints, body \in Bodies, t \in Clock :
       /\ ep # "/orders" => (body = NoBody /\ t = 0)
       /\ ~OrderIn(body) => t = 0
       /\ tasks' = [tasks EXCEPT ![i] =
            IF Awaits(ep, mongo_client, body)
            THEN [pc |-> "await", ep |-> ep, body |-> body,
                  client |-> mongo_client,
                  doc |-> IF ep = "/orders" THEN OrderDoc(body, t)
                          ELSE IdleTask.doc,
                  res |-> NoRes, up |-> FALSE, resp |-> NoResp]
            ELSE [IdleTask EXCEPT
                  !.pc = "done", !.ep = ep, !.body = body,
                  !.client = mongo_client,
                  !.resp = Answer(ep, body,
                                  Route(ep, mongo_client, body, NoRes),
                                  FALSE)]]
  /\ UNCHANGED <<MONGO_URI, phase, mongo_client, startupPing, dbUp, coll,
                 nextId, resp, prev, prev2, okPosts>>

\* the driver executes the awaited command against the server
DriverStep(i) ==
  /\ tasks[i].pc = "await"
  /\ \E e \in Errors :
       LET ep == tasks[i].ep
           res == command(dbUp, e, CommandValue(ep, coll, nextId))
           inserts == ep = "/orders" /\ res.ok
       IN
       /\ inserts => Len(coll) < MaxDocs
       /\ coll' = IF inserts THEN insert_one(coll, tasks[i].doc, res.val)
                  ELSE coll
       /\ nextId' = IF inserts THEN nextId + 1 ELSE nextId
       /\ tasks' = [tasks EXCEPT ![i].pc = "ready", ![i].res = res,
                                ![i].up = dbUp]
  /\ UNCHANGED <<MONGO_URI, phase, mongo_client, startupPing, dbUp, resp,
                 prev, prev2, okPosts>>

\* the handler resumes after its await and answers
Resume(i) ==
  /\ tasks[i].pc = "ready"
  /\ tasks' = [tasks EXCEPT
               ![i].pc = "done",
               ![i].resp = Answer(tasks[i].ep, tasks[i].body,
                                  Route(tasks[i].ep, tasks[i].client,
                                        tasks[i].body, tasks[i].res),
                                  tasks[i].up)]
  /\ UNCHANGED <<MONGO_URI, phase, mongo_client, startupPing, dbUp, coll,
                 nextId, resp, prev, prev2, okPosts>>

NextConc ==
  \/ startup_event
  \/ shutdown_event
  \/ DbFlip
  \/ \E i \in 1..MaxInFlight : Begin(i)
  \/ \E i \in 1..MaxInFlight : DriverStep(i)
  \/ \E i \in 1..MaxInFlight : Resume(i)

SpecConc == Init /\ [][NextConc]_vars

\* ====================== properties ======================
IsCount(r) == r.ep = "/orders/count" /\ r.status = 200
IsPostOk(r) == r.ep = "/orders" /\ r.status = 200
IsHealth(r) == r.ep \in {"/healthz", "/ready"}
\* a body of POST /orders without orderId, or whose orderId is no string
Malformed(body) == ~body.present \/ body.type # "str"
\* a request other than a POST /orders with a malformed body
Handled(r) == r.ep # "none" /\ (r.ep = "/orders" => ~Malformed(r.body))
\* the handler issued a driver command and the command raised
DriverRaised(r) == r.calls # <<>> /\ ~r.reached
\* the answers changed: a request was answered in this step
Answered == <<resp, prev, prev2>>' # <<resp, prev, prev2>>

\* C1: a POST /orders answered with success inserts exactly one new document
\* carrying the posted orderId, also when that orderId is already stored, so
\* a count / POST / count sequence of successful answers sees count + 1.
C1_PostAddsOne ==
  /\ [](IsCount(resp) /\ IsPostOk(prev) /\ IsCount(prev2)
          => resp.out.count = prev2.out.count + 1)
  /\ [][(Answered /\ IsPostOk(resp'))
          => /\ Len(coll') = Len(coll) + 1
             /\ SubSeq(coll', 1, Len(coll)) = coll
             /\ coll'[Len(coll')].orderId = resp'.body.val]_vars

C1_Witness ==
  /\ IsCount(resp) /\ IsPostOk(prev) /\ IsCount(prev2)
  /\ Len(coll) = 2
  /\ coll[1].orderId = coll[2].orderId
  /\ resp.out.count = 2

\* C2: POST /orders and GET /orders/count answer 503 whenever the driver
\* command raises, and whenever no handle is configured.
C2_Unavailable503 ==
  (resp.ep \in {"/orders", "/orders/count"} /\ Handled(resp)
     /\ (DriverRaised(resp) \/ ~Truthy(mongo_client)))
    => resp.status = 503

\* C3: with the database unreachable (no handle, or the ping raises) /healthz
\* and /ready answer 503 with a non-empty detail, and in every state /ready
\* answers what /healthz answers.
C3_HealthUnavailable ==
  /\ (IsHealth(resp) /\ (~Truthy(mongo_client) \/ DriverRaised(resp)))
       => (resp.status = 503 /\ resp.out.detail # "")
  /\ \A e \in Errors :
       Route("/ready", mongo_client, NoBody, command(dbUp, e, 1))
         = Route("/healthz", mongo_client, NoBody, command(dbUp, e, 1))

C3_Witness ==
  /\ resp.ep = "/ready" /\ resp.status = 503 /\ DriverRaised(resp)
  /\ prev.ep = "/healthz" /\ prev.status = 503 /\ DriverRaised(prev)
  /\ resp.out.detail = "mongo ping failed: "

\* C4: a POST /orders whose body has no orderId, or one that is not a
\* string, is answered 4xx whatever the connection state, issues no driver
\* command and leaves the collection and the count unchanged.
C4_RejectedPost ==
  /\ []((resp.ep = "/orders" /\ Malformed(resp.body))
          => (resp.status \in 400..499 /\ resp.calls = <<>>))
  /\ []((IsCount(resp) /\ prev.ep = "/orders" /\ Malformed(prev.body)
           /\ IsCount(prev2))
          => resp.out.count = prev2.out.count)
  /\ [][(Answered /\ resp'.ep = "/orders" /\ Malformed(resp'.body))
          => (coll' = coll /\ nextId' = nextId)]_vars

C4_Witness ==
  /\ IsCount(resp) /\ resp.out.count = 1
  /\ prev.ep = "/orders" /\ ~prev.body.present /\ prev.status = 422
  /\ IsCount(prev2)

\* C5: every stored document has a non-empty orderId.
C5_NonEmptyOrderId == \A k \in 1..Len(coll) : coll[k].orderId # ""

\* C6: a successful count returns the number of stored documents, which is
\* the number of POSTs answered with success (0 when there is none), and the
\* stored documents are never removed or changed.
C6_CountIsSuccessfulPosts ==
  /\ [](IsCount(resp)
          => (resp.out.count = Len(coll) /\ resp.out.count = okPosts))
  /\ [](okPosts = Len(coll))
  /\ [][/\ Len(coll') >= Len(coll)
        /\ SubSeq(coll', 1, Len(coll)) = coll
        /\ (coll' # coll => (Answered /\ IsPostOk(resp')))]_vars

C6_Witness ==
  /\ IsCount(resp) /\ resp.out.count = 2 /\ okPosts = 2
  /\ prev.ep = "/orders" /\ prev.status # 200
  /\ IsPostOk(prev2)

\* C7: when startup established no handle, no request issues a driver
\* command, and /healthz, /ready, /orders/count and every POST /orders that
\* reaches its handler answer 503.
C7_NoHandleNoCall ==
  /\ ~Truthy(MONGO_URI) => mongo_client = None
  /\ (phase # "init" /\ ~Truthy(mongo_client)) =>
       \A r \in {resp, prev, prev2} :
         /\ r.calls = <<>>
         /\ Handled(r) => r.status = 503
  /\ coll # <<>> => Truthy(mongo_client)

C7_Witness ==
  /\ mongo_client = None /\ phase = "serving"
  /\ resp.ep = "/orders" /\ ~Malformed(resp.body) /\ resp.status = 503
  /\ prev.ep = "/ready" /\ prev.status = 503
  /\ prev2.ep = "/orders/count" /\ prev2.status = 503

\* C8: startup always ends serving, whatever its ping did; with a handle,
\* every health check issues exactly one ping and answers 200 {"status":"ok"}
\* exactly when the server is reachable at that moment, whatever the startup
\* ping or earlier health checks gave.
C8_LiveProbe ==
  /\ []((IsHealth(resp) /\ Truthy(mongo_client))
          => /\ resp.calls = <<"ping">>
             /\ (resp.status = 200) <=> resp.reached
             /\ (resp.status = 200) => resp.out = [status |-> "ok"]
             /\ (resp.status # 200) => resp.status = 503)
  /\ [][phase = "init" /\ phase' # phase => phase' = "serving"]_vars

C8_Witness ==
  /\ startupPing = "failed"
  /\ IsHealth(prev) /\ prev.status = 503
  /\ resp.ep = "/healthz" /\ resp.status = 200

\* the connection state of section 4.4, read off the handle
ConnState ==
  CASE mongo_client = None -> "UNINITIALIZED"
    [] mongo_client = "closed" -> "CLOSED"
    [] mongo_client = "open" /\ startupPing = "ok" -> "CONNECTED"
    [] OTHER -> "DEGRADED"

\* only startup and shutdown touch the handle; the states follow the
\* lifecycle and CLOSED is final
LifecycleStep ==
  /\ mongo_client' # mongo_client => phase' # phase
  /\ mongo_client' = "open" /\ mongo_client # "open" => phase = "init"
  /\ ConnState' # ConnState =>
       \/ /\ ConnState = "UNINITIALIZED"
          /\ phase = "init" /\ phase' = "serving"
          /\ ConnState' \in {"CONNECTED", "DEGRADED"}
       \/ /\ ConnState \in {"CONNECTED", "DEGRADED"}
          /\ phase = "serving" /\ phase' = "stopped"
          /\ ConnState' = "CLOSED"

\* C9 as stated: after the startup attempt the connection is CONNECTED or
\* DEGRADED, and after shutdown it is CLOSED.
C9_Original ==
  /\ phase = "serving" => ConnState \in {"CONNECTED", "DEGRADED"}
  /\ phase = "stopped" => ConnState = "CLOSED"

\* C9 amended: with a connection URI configured the lifecycle is
\* UNINITIALIZED -> CONNECTED or DEGRADED -> CLOSED; without one the handle
\* stays unset through startup and shutdown.  Only startup assigns the
\* handle, and nothing leaves CLOSED.
C9_Lifecycle ==
  /\ [](Truthy(MONGO_URI) => C9_Original)
  /\ [](~Truthy(MONGO_URI) => ConnState = "UNINITIALIZED")
  /\ [][LifecycleStep]_vars

C9_Witness ==
  /\ ConnState = "CLOSED" /\ startupPing = "failed"
  /\ IsHealth(resp) /\ resp.status = 200

\* POST tasks whose insert the driver acknowledged / that answered 200
AckedPosts ==
  {i \in 1..MaxInFlight :
     /\ tasks[i].ep = "/orders"
     /\ \/ tasks[i].pc = "ready" /\ tasks[i].res.ok
        \/ tasks[i].pc = "done" /\ tasks[i].resp.status = 200}
OkPosts ==
  {i \in 1..MaxInFlight :
     tasks[i].ep = "/orders" /\ tasks[i].pc = "done"
       /\ tasks[i].resp.status = 200}

\* C10: under every interleaving of the tasks at their awaits, each
\* successful POST has inserted exactly one document, its own, and returns
\* the identifier of that document, distinct from every other one; the
\* collection holds one document per acknowledged insert; the tasks do not
\* write the handle.
C10_ConcurrentInserts ==
  /\ [](/\ Len(coll) = Cardinality(AckedPosts)
        /\ (\A i \in 1..MaxInFlight : ~InFlight(i))
             => Len(coll) = Cardinality(OkPosts)
        /\ \A i \in OkPosts :
             /\ Cardinality({k \in 1..Len(coll) :
                   ObjectIdStr(coll[k]._id) = tasks[i].resp.out.id}) = 1
             /\ \A k \in 1..Len(coll) :
                   ObjectIdStr(coll[k]._id) = tasks[i].resp.out.id
                     => /\ coll[k].orderId = tasks[i].body.val
                        /\ coll[k].ts = tasks[i].doc.ts
        /\ \A i, j \in OkPosts :
             i # j => tasks[i].resp.out.id # tasks[j].resp.out.id)
  /\ [][tasks' # tasks => mongo_client' = mongo_client]_vars

C10_Witness ==
  /\ OkPosts = {1, 2}
  /\ tasks[1].body = tasks[2].body
  /\ tasks[1].resp.out.id = ObjectIdStr(coll[2]._id)
  /\ tasks[2].resp.out.id = ObjectIdStr(coll[1]._id)

====
